---- MODULE Spec2Model ----
(***************************************************************************)
(* A model of the Datalog engine of biscuit-datalog-test: the value type   *)
(* ID, predicate matching, constraints, the expression stack machine, the  *)
(* join iterator CombineIt, Rule::apply and the World with its fixpoint    *)
(* driver run_with_limits, query and query_rule.                           *)
(*                                                                         *)
(* Symbols (u64) and variable ids (u32) are interned names in the code and *)
(* are only compared for equality: they are strings here.  Str and Bytes   *)
(* payloads are sequences of small numbers.  i64 is modelled at IntBits    *)
(* bits, two's complement.                                                 *)
(***************************************************************************)
EXTENDS Integers, Sequences, FiniteSets, TLC

VARIABLES
    facts,            \* World.facts: HashSet<Fact>
    rules,            \* World.rules: Vec<Rule>
    pc,               \* "idle", "run" (inside run_with_limits' loop), "panic";
                      \* "apply", "match_preds", "evaluate": at the entry of
                      \* the function, which was given the arguments in
                      \* facts and qrule, in mp, in ev
    last,             \* the last call made on the World
    index,            \* run_with_limits: index
    elapsed,          \* run_with_limits: now - start, in clock ticks
    limits,           \* run_with_limits: its RunLimits argument
    result,           \* what the last run_with_limits returned
    start_facts,      \* World.facts when the last run_with_limits was called
    second,           \* the running/last run directly follows a successful run
    clean,            \* no add_fact/add_rule/failed run since a successful run
    qpred,            \* query: its argument
    qres,             \* query: the facts returned
    qrule,            \* query_rule: its argument
    qemit,            \* query_rule: the bindings CombineIt emitted, in order
    qout,             \* query_rule: the facts returned, in order
    mp,               \* match_preds: its arguments and what it returned
    ev,               \* Expression::evaluate: its arguments and what it returned
    overflow_checks   \* the build panics on integer overflow (debug profile)

vars == <<facts, rules, pc, last, index, elapsed, limits, result, start_facts,
          second, clean, qpred, qres, qrule, qemit, qout, mp, ev,
          overflow_checks>>

-----------------------------------------------------------------------------
(* Bounds of the model *)

\* add_fact is called only while the world holds fewer facts than this
MaxFacts == 3
\* add_rule is called only while the world holds fewer rules than this
MaxRules == 2
\* the width i64 is modelled at
IntBits == 4
\* the clock advances by at most this many ticks during one iteration
MaxTick == 1
\* fact sets up to this size are iterated in every order, larger ones in the
\* rotations of one order and their reversals
MaxPerm == 3
\* match_preds is given predicates of at most this many arguments
MaxArity == 2
\* Expression::evaluate is given at most this many ops
MaxOps == 4
\* the worlds run_with_limits is called on again and again start with at
\* most this many facts
MaxLiveFacts == 2

-----------------------------------------------------------------------------
(* ID *)

Symbol(s) == [tag |-> "Symbol", v |-> s]
Variable(k) == [tag |-> "Variable", v |-> k]
Integer(i) == [tag |-> "Integer", v |-> i]
Str(s) == [tag |-> "Str", v |-> s]
Date(d) == [tag |-> "Date", v |-> d]
Bytes(b) == [tag |-> "Bytes", v |-> b]
Bool(b) == [tag |-> "Bool", v |-> b]

\* Option::None, and the unwinding of a panic
NoneV == [tag |-> "None", v |-> 0]
PanicV == [tag |-> "Panic", v |-> 0]

Predicate(name, ids) == [name |-> name, ids |-> ids]

\* Fact wraps one Predicate
Fact(name, ids) == Predicate(name, ids)

Rule(head, body, constraints, expressions) ==
    [head |-> head, body |-> body, constraints |-> constraints,
     expressions |-> expressions]

Constraint(id, kind, op, val) == [id |-> id, kind |-> kind, op |-> op, val |-> val]

Min(a, b) == IF a < b THEN a ELSE b

Range(s) == {s[i] : i \in 1..Len(s)}

IsPrefix(p, s) == Len(p) <= Len(s) /\ SubSeq(s, 1, Len(p)) = p

IsSuffix(p, s) == Len(p) <= Len(s) /\ SubSeq(s, Len(s) - Len(p) + 1, Len(s)) = p

\* Regex::new(r).ok() and is_match for the patterns made of literal
\* characters, [valid |-> TRUE, lit |-> r], which match the strings r occurs
\* in, and for the patterns that do not compile, [valid |-> FALSE, ...]
RegexIsMatch(r, s) ==
    /\ r.valid
    /\ \E i \in 0..(Len(s) - Len(r.lit)) : SubSeq(s, i + 1, i + Len(r.lit)) = r.lit

-----------------------------------------------------------------------------
(* match_preds *)

MatchIds(fid, pid) ==
    IF pid.tag = "Variable" THEN TRUE
    ELSE IF fid.tag = "Variable" THEN TRUE
    ELSE IF fid.tag = "Symbol" /\ pid.tag = "Symbol" THEN fid.v = pid.v
    ELSE IF fid.tag = "Integer" /\ pid.tag = "Integer" THEN fid.v = pid.v
    ELSE IF fid.tag = "Str" /\ pid.tag = "Str" THEN fid.v = pid.v
    ELSE IF fid.tag = "Date" /\ pid.tag = "Date" THEN fid.v = pid.v
    ELSE FALSE

match_preds(pred1, pred2) ==
    /\ pred1.name = pred2.name
    /\ Len(pred1.ids) = Len(pred2.ids)
    /\ \A i \in 1..Len(pred1.ids) : MatchIds(pred1.ids[i], pred2.ids[i])

-----------------------------------------------------------------------------
(* Constraint::check *)

\* the first arm of the match: a Variable value for the constrained name
CheckPanics(c, name, id) == name = c.id /\ id.tag = "Variable"

Check(c, name, id) ==
    IF name # c.id THEN TRUE
    ELSE IF id.tag = "Integer" /\ c.kind = "Int" THEN
        CASE c.op = "LessThan" -> id.v < c.val
          [] c.op = "GreaterThan" -> id.v > c.val
          [] c.op = "LessOrEqual" -> id.v <= c.val
          [] c.op = "GreaterOrEqual" -> id.v >= c.val
          [] c.op = "Equal" -> id.v = c.val
          [] c.op = "In" -> id.v \in c.val
          [] c.op = "NotIn" -> id.v \notin c.val
    ELSE IF id.tag = "Str" /\ c.kind = "Str" THEN
        CASE c.op = "Prefix" -> IsPrefix(c.val, id.v)
          [] c.op = "Suffix" -> IsSuffix(c.val, id.v)
          [] c.op = "Equal" -> id.v = c.val
          [] c.op = "Regex" -> RegexIsMatch(c.val, id.v)
          [] c.op = "In" -> id.v \in c.val
          [] c.op = "NotIn" -> id.v \notin c.val
    ELSE IF id.tag = "Date" /\ c.kind = "Date" THEN
        CASE c.op = "Before" -> id.v <= c.val
          [] c.op = "After" -> id.v >= c.val
    ELSE IF id.tag = "Symbol" /\ c.kind = "Symbol" THEN
        CASE c.op = "In" -> id.v \in c.val
          [] c.op = "NotIn" -> id.v \notin c.val
    ELSE IF id.tag = "Bytes" /\ c.kind = "Bytes" THEN
        CASE c.op = "Equal" -> id.v = c.val
          [] c.op = "In" -> id.v \in c.val
          [] c.op = "NotIn" -> id.v \notin c.val
    ELSE FALSE

-----------------------------------------------------------------------------
(* Expression: the stack machine *)

MinInt == -(2 ^ (IntBits - 1))
MaxInt == 2 ^ (IntBits - 1) - 1

\* two's complement wrapping of an arithmetic result
Wrap(n) == ((n - MinInt) % (2 ^ IntBits)) + MinInt

\* i64 arithmetic: panics on overflow when the build checks it, wraps otherwise
Arith(n) ==
    IF n < MinInt \/ n > MaxInt
    THEN IF overflow_checks THEN PanicV ELSE Integer(Wrap(n))
    ELSE Integer(n)

UnaryEvaluate(unary, value) ==
    IF unary = "Negate" /\ value.tag = "Integer" THEN Arith((-1) * value.v)
    ELSE IF unary = "Negate" /\ value.tag = "Bool" THEN Bool(~value.v)
    ELSE NoneV

BinaryEvaluate(binary, left, right) ==
    IF binary = "LessThan" /\ left.tag = "Integer" /\ right.tag = "Integer"
        THEN Bool(left.v < right.v)
    ELSE IF binary = "GreaterThan" /\ left.tag = "Integer" /\ right.tag = "Integer"
        THEN Bool(left.v > right.v)
    ELSE IF binary = "Add" /\ left.tag = "Integer" /\ right.tag = "Integer"
        THEN Arith(left.v + right.v)
    ELSE IF binary = "And" /\ left.tag = "Bool" /\ right.tag = "Bool"
        THEN Bool(left.v /\ right.v)
    ELSE NoneV

OpValue(id) == [op |-> "Value", x |-> id]
OpUnary(u) == [op |-> "Unary", x |-> u]
OpBinary(b) == [op |-> "Binary", x |-> b]

\* the loop of Expression::evaluate from op i on; the stack's top is its end
RECURSIVE EvalOps(_, _, _, _)
EvalOps(ops, i, stack, values) ==
    IF i > Len(ops) THEN
        IF Len(stack) = 1 THEN stack[1] ELSE NoneV
    ELSE LET o == ops[i] IN
        IF o.op = "Value" THEN
            IF o.x.tag = "Variable" THEN
                IF o.x.v \in DOMAIN values
                THEN EvalOps(ops, i + 1, Append(stack, values[o.x.v]), values)
                ELSE NoneV
            ELSE EvalOps(ops, i + 1, Append(stack, o.x), values)
        ELSE IF o.op = "Unary" THEN
            IF Len(stack) = 0 THEN NoneV
            ELSE LET res == UnaryEvaluate(o.x, stack[Len(stack)]) IN
                 IF res.tag \in {"None", "Panic"} THEN res
                 ELSE EvalOps(ops, i + 1,
                              Append(SubSeq(stack, 1, Len(stack) - 1), res), values)
        ELSE
            \* (stack.pop(), stack.pop()): with one value on the stack it is
            \* popped and the evaluation fails
            IF Len(stack) < 2 THEN NoneV
            ELSE LET right_id == stack[Len(stack)]
                     left_id == stack[Len(stack) - 1]
                     res == BinaryEvaluate(o.x, left_id, right_id)
                 IN IF res.tag \in {"None", "Panic"} THEN res
                    ELSE EvalOps(ops, i + 1,
                                 Append(SubSeq(stack, 1, Len(stack) - 2), res), values)

ExpressionEvaluate(ops, values) == EvalOps(ops, 1, <<>>, values)

-----------------------------------------------------------------------------
(* MatchedVariables *)

MatchedVariablesNew(import) == [k \in import |-> NoneV]

\* insert: [ok, vars]
MatchedVariablesInsert(mv, key, value) ==
    IF key \notin DOMAIN mv THEN [ok |-> FALSE, vars |-> mv]
    ELSE IF mv[key] = NoneV THEN [ok |-> TRUE, vars |-> [mv EXCEPT ![key] = value]]
    ELSE [ok |-> value = mv[key], vars |-> mv]

\* complete: the HashMap<u32, ID>, or None when a variable has no value
MatchedVariablesComplete(mv) ==
    IF \E k \in DOMAIN mv : mv[k] = NoneV THEN NoneV ELSE mv

-----------------------------------------------------------------------------
(* CombineIt: the join.  The lazy iterator is drained by its only user,    *)
(* Rule::apply, so it is modelled by the sequence of all the bindings it   *)
(* yields, in order, or by a panic raised while yielding them.             *)

Panicked == [panic |-> TRUE, out |-> <<>>]
Yields(s) == [panic |-> FALSE, out |-> s]

\* a bug CheckConstraints could have: the first constraint only is checked
CheckConstraintsFirst(constraints, i, k, id) ==
    IF i > Len(constraints) THEN "ok"
    ELSE IF CheckPanics(constraints[i], k, id) THEN "panic"
    ELSE IF ~Check(constraints[i], k, id) THEN "fail"
    ELSE "ok"

\* for c in self.constraints { if !c.check(*k, id) {...; break} }:
\* "ok", "fail" or "panic"
RECURSIVE CheckConstraints(_, _, _, _)
CheckConstraints(constraints, i, k, id) ==
    IF i > Len(constraints) THEN "ok"
    ELSE IF CheckPanics(constraints[i], k, id) THEN "panic"
    ELSE IF ~Check(constraints[i], k, id) THEN "fail"
    ELSE CheckConstraints(constraints, i + 1, k, id)

\* the loop over pred.ids.iter().zip(&current_fact.predicate.ids) from
\* position i on: [panic, ok (match_ids), vars]
RECURSIVE UnifyFrom(_, _, _, _, _)
UnifyFrom(mv, pred, fact, constraints, i) ==
    IF i > Min(Len(pred.ids), Len(fact.ids))
    THEN [panic |-> FALSE, ok |-> TRUE, vars |-> mv]
    ELSE IF pred.ids[i].tag = "Variable" THEN
        LET k == pred.ids[i].v
            id == fact.ids[i]
            cc == CheckConstraints(constraints, 1, k, id)
            ins == MatchedVariablesInsert(mv, k, id)
        IN IF cc = "panic" THEN [panic |-> TRUE, ok |-> FALSE, vars |-> mv]
           ELSE IF cc = "fail" \/ ~ins.ok
                THEN [panic |-> FALSE, ok |-> FALSE, vars |-> ins.vars]
           ELSE UnifyFrom(ins.vars, pred, fact, constraints, i + 1)
    ELSE UnifyFrom(mv, pred, fact, constraints, i + 1)

\* the expressions of a complete binding, in order, until one is not
\* Bool(true): "valid", "invalid" or "panic"
RECURSIVE TestExpressions(_, _, _)
TestExpressions(expressions, i, variables) ==
    IF i > Len(expressions) THEN "valid"
    ELSE LET res == ExpressionEvaluate(expressions[i], variables) IN
         IF res = Bool(TRUE) THEN TestExpressions(expressions, i + 1, variables)
         ELSE IF res = PanicV THEN "panic"
         ELSE "invalid"

\* a bug CurrentFacts could have: find() for filter(), the first match only
CurrentFactsFirst(order, p) ==
    LET s == SelectSeq(order, LAMBDA fact : match_preds(fact, p)) IN
    IF s = <<>> THEN <<>> ELSE <<s[1]>>

\* current_facts: facts.iter().filter(|fact| match_preds(&fact.predicate, &p)),
\* where order is the sequence facts.iter() yields
CurrentFacts(order, p) == SelectSeq(order, LAMBDA fact : match_preds(fact, p))

RECURSIVE CombineIt(_, _, _, _, _)
RECURSIVE CombineItNext(_, _, _, _, _, _)

\* CombineIt::next over the candidates left in current_facts
CombineItNext(variables, predicates, constraints, expressions, order, current_facts) ==
    IF Len(predicates) = 0 THEN
        \* the branch "if self.predicates.is_empty()" of next()
        LET c == MatchedVariablesComplete(variables) IN
        IF c = NoneV THEN Yields(<<>>)
        ELSE LET t == TestExpressions(expressions, 1, c) IN
             IF t = "panic" THEN Panicked
             ELSE IF t = "valid" THEN Yields(<<c>>) ELSE Yields(<<>>)
    ELSE IF current_facts = <<>> THEN Yields(<<>>)
    ELSE
        LET u == UnifyFrom(variables, predicates[1], Head(current_facts), constraints, 1)
            rest == CombineItNext(variables, predicates, constraints, expressions,
                                  order, Tail(current_facts))
        IN IF u.panic THEN Panicked
           ELSE IF ~u.ok THEN rest
           ELSE IF Len(predicates) = 1 THEN
               LET c == MatchedVariablesComplete(u.vars) IN
               IF c = NoneV THEN rest
               ELSE LET t == TestExpressions(expressions, 1, c) IN
                    IF t = "panic" THEN Panicked
                    ELSE IF t = "invalid" THEN rest
                    ELSE IF rest.panic THEN Panicked
                    ELSE Yields(<<c>> \o rest.out)
           ELSE
               LET sub == CombineIt(u.vars, Tail(predicates), constraints,
                                    expressions, order)
               IN IF sub.panic \/ rest.panic THEN Panicked
                  ELSE Yields(sub.out \o rest.out)

\* CombineIt::new, then the iterator drained
CombineIt(variables, predicates, constraints, expressions, order) ==
    IF Len(predicates) = 0
    THEN Panicked    \* predicates[0]: index out of bounds
    ELSE CombineItNext(variables, predicates, constraints, expressions, order,
                       CurrentFacts(order, predicates[1]))

-----------------------------------------------------------------------------
(* Rule::apply *)

\* variables_set: the variables of the body
VariablesSet(body) ==
    UNION {{body[i].ids[j].v :
                j \in {n \in 1..Len(body[i].ids) : body[i].ids[n].tag = "Variable"}} :
           i \in 1..Len(body)}

\* the closure given to map(): the head with its variables replaced by the
\* values of binding h; "continue" leaves a variable h lacks in place
HeadFact(head, h) ==
    [head EXCEPT !.ids =
        [ix \in 1..Len(head.ids) |->
            IF head.ids[ix].tag = "Variable" /\ head.ids[ix].v \in DOMAIN h
            THEN h[head.ids[ix].v]
            ELSE head.ids[ix]]]

\* the bindings the join of a rule yields over facts iterated in order
RuleBindings(rule, order) ==
    CombineIt(MatchedVariablesNew(VariablesSet(rule.body)), rule.body,
              rule.constraints, rule.expressions, order)

\* apply: the facts appended to new_facts, or a panic
RuleApply(rule, order) ==
    LET c == RuleBindings(rule, order) IN
    IF c.panic THEN Panicked
    ELSE Yields([i \in 1..Len(c.out) |-> HeadFact(rule.head, c.out[i])])

\* a bug ApplyRules could have: a rule is applied to the facts and to the
\* facts the rules before it derived in the iteration
RECURSIVE ApplyRulesChained(_, _, _)
ApplyRulesChained(rs, i, order) ==
    IF i > Len(rs) THEN Yields(<<>>)
    ELSE LET a == RuleApply(rs[i], order) IN
         IF a.panic THEN Panicked
         ELSE LET rest == ApplyRulesChained(rs, i + 1, order \o a.out) IN
              IF rest.panic THEN Panicked ELSE Yields(a.out \o rest.out)

\* for rule in self.rules.iter() { rule.apply(&self.facts, &mut new_facts) }
RECURSIVE ApplyRules(_, _, _)
ApplyRules(rs, i, order) ==
    IF i > Len(rs) THEN Yields(<<>>)
    ELSE LET a == RuleApply(rs[i], order) IN
         IF a.panic THEN Panicked
         ELSE LET rest == ApplyRules(rs, i + 1, order) IN
              IF rest.panic THEN Panicked ELSE Yields(a.out \o rest.out)

-----------------------------------------------------------------------------
(* World *)

\* a bug Extend could have: the new facts replace the old ones
ExtendReplacing(fs, new_facts) == Range(new_facts)

\* self.facts.extend(new_facts.drain(..))
Extend(fs, new_facts) == fs \cup Range(new_facts)

\* a bug NoNewFact could have: len read after the extend, so always equal
NoNewFactLenAfter(len, fs) == Cardinality(fs) = Cardinality(fs)

\* if self.facts.len() == len { break; }
NoNewFact(len, fs) == Cardinality(fs) = len

\* a bug IterationsReached could have: > for ==, the limit trips one late
IterationsReachedLate(ix, l) == ix > l.max_iterations

\* if index == limits.max_iterations
IterationsReached(ix, l) == ix = l.max_iterations

\* a bug FactsReached could have: the limit trips one fact early
FactsReachedEarly(fs, l) == Cardinality(fs) + 1 >= l.max_facts

\* a bug FactsReached could have: > for >=
FactsReachedStrict(fs, l) == Cardinality(fs) > l.max_facts

\* if self.facts.len() >= limits.max_facts as usize
FactsReached(fs, l) == Cardinality(fs) >= l.max_facts

\* a bug TimeReached could have: > for >=
TimeReachedStrict(el, l) == el > l.max_time

\* if now >= time_limit, where time_limit = start + limits.max_time
TimeReached(el, l) == el >= l.max_time

\* World::query: the filter closure; zip stops at the shorter argument list
QueryIds(fid, pid) ==
    IF fid.tag = "Symbol" /\ pid.tag = "Variable" THEN TRUE
    ELSE IF fid.tag = "Symbol" /\ pid.tag = "Symbol" THEN fid.v = pid.v
    ELSE IF fid.tag = "Integer" /\ pid.tag = "Integer" THEN fid.v = pid.v
    ELSE IF fid.tag = "Str" /\ pid.tag = "Str" THEN fid.v = pid.v
    ELSE IF fid.tag = "Date" /\ pid.tag = "Date" THEN fid.v = pid.v
    ELSE FALSE

QueryFilter(f, pred) ==
    /\ f.name = pred.name
    /\ \A i \in 1..Min(Len(f.ids), Len(pred.ids)) : QueryIds(f.ids[i], pred.ids[i])

WorldQuery(fs, pred) == {f \in fs : QueryFilter(f, pred)}

-----------------------------------------------------------------------------
(* The order a HashSet is iterated in is unspecified: any sequence of its  *)
(* elements without repetition.                                            *)

RECURSIVE SetToSeq(_)
SetToSeq(S) ==
    IF S = {} THEN <<>>
    ELSE LET e == CHOOSE e \in S : TRUE IN <<e>> \o SetToSeq(S \ {e})

RECURSIVE AllOrders(_)
AllOrders(S) ==
    IF S = {} THEN {<<>>}
    ELSE UNION {{<<e>> \o p : p \in AllOrders(S \ {e})} : e \in S}

Rotate(s, k) == [i \in 1..Len(s) |-> s[((i + k - 1) % Len(s)) + 1]]

Reverse(s) == [i \in 1..Len(s) |-> s[Len(s) + 1 - i]]

IterOrders(S) ==
    IF Cardinality(S) <= MaxPerm THEN AllOrders(S)
    ELSE LET s == SetToSeq(S) IN
         {Rotate(s, k) : k \in 0..(Len(s) - 1)}
            \cup {Reverse(Rotate(s, k)) : k \in 0..(Len(s) - 1)}

-----------------------------------------------------------------------------
(* The inputs of the calls *)

DefaultMaxFacts == 1000
DefaultMaxIterations == 100
DefaultMaxTime == 1

RunLimits(mf, mi, mt) == [max_facts |-> mf, max_iterations |-> mi, max_time |-> mt]

RunLimitsDefault == RunLimits(DefaultMaxFacts, DefaultMaxIterations, DefaultMaxTime)

LimitsInputs ==
    {RunLimitsDefault,
     RunLimits(4, DefaultMaxIterations, DefaultMaxTime),
     RunLimits(DefaultMaxFacts, 2, DefaultMaxTime),
     RunLimits(DefaultMaxFacts, 0, DefaultMaxTime),
     RunLimits(4, 1, 0)}

\* ground facts only: add_fact is given no Variable
FactInputs ==
    {Fact("parent", <<Symbol("A"), Symbol("B")>>),
     Fact("parent", <<Symbol("B"), Symbol("C")>>),
     Fact("parent", <<Symbol("C"), Symbol("D")>>),
     Fact("b", <<Bytes(<<1>>), Bool(TRUE)>>)}

\* the facts of the worlds query and query_rule are applied to
ObserveFactInputs ==
    FactInputs \cup
    {Fact("x", <<Integer(-2), Symbol("abc")>>),
     Fact("x", <<Integer(0), Symbol("def")>>)}

\* grandparent(X, Z) :- parent(X, Y), parent(Y, Z)
RuleGrandparent ==
    Rule(Predicate("grandparent", <<Variable("X"), Variable("Z")>>),
         <<Predicate("parent", <<Variable("X"), Variable("Y")>>),
           Predicate("parent", <<Variable("Y"), Variable("Z")>>)>>,
         <<>>, <<>>)

\* parent(X, Z) :- parent(X, Y), parent(Y, Z)
RuleTransitive ==
    Rule(Predicate("parent", <<Variable("X"), Variable("Z")>>),
         <<Predicate("parent", <<Variable("X"), Variable("Y")>>),
           Predicate("parent", <<Variable("Y"), Variable("Z")>>)>>,
         <<>>, <<>>)

\* flagged(F) :- b(Bytes[1], F): a concrete Bytes argument in the body
RuleBytes ==
    Rule(Predicate("flagged", <<Variable("F")>>),
         <<Predicate("b", <<Bytes(<<1>>), Variable("F")>>)>>,
         <<>>, <<>>)

\* orphan(X, W) :- parent(X, Y): the head variable W is not in the body
RuleHeadVariable ==
    Rule(Predicate("orphan", <<Variable("X"), Variable("W")>>),
         <<Predicate("parent", <<Variable("X"), Variable("Y")>>)>>,
         <<>>, <<>>)

\* always(A) :- (nothing)
RuleEmptyBody ==
    Rule(Predicate("always", <<Symbol("A")>>), <<>>, <<>>, <<>>)

\* less_than(N, V) :- x(N, V), -(5 + -4) < N
RuleExpression ==
    Rule(Predicate("less_than", <<Variable("N"), Variable("V")>>),
         <<Predicate("x", <<Variable("N"), Variable("V")>>)>>,
         <<>>,
         << <<OpValue(Integer(5)), OpValue(Integer(-4)), OpBinary("Add"),
              OpUnary("Negate"), OpValue(Variable("N")), OpBinary("LessThan")>> >>)

\* small(N, V) :- x(N, V), N < 0
RuleConstraint ==
    Rule(Predicate("small", <<Variable("N"), Variable("V")>>),
         <<Predicate("x", <<Variable("N"), Variable("V")>>)>>,
         <<Constraint("N", "Int", "LessThan", 0)>>,
         <<>>)

RuleInputs ==
    {RuleGrandparent, RuleTransitive, RuleBytes, RuleHeadVariable, RuleEmptyBody}

\* the rules given to query_rule
ObserveRuleInputs == RuleInputs \cup {RuleExpression, RuleConstraint}

PredInputs ==
    {Predicate("parent", <<Variable("P"), Variable("C")>>),
     Predicate("parent", <<Variable("P"), Symbol("B")>>),
     Predicate("parent", <<Variable("P")>>),
     Predicate("grandparent", <<Variable("P"), Variable("C")>>),
     Predicate("x", <<Variable("N"), Variable("V")>>),
     Predicate("b", <<Bytes(<<1>>), Variable("F")>>)}

-----------------------------------------------------------------------------
(* The calls *)

NoLimits == RunLimits(0, 0, 0)

\* the locals and the return value of the last run_with_limits are gone
ForgetRun ==
    /\ index' = 0
    /\ elapsed' = 0
    /\ limits' = NoLimits
    /\ result' = "none"
    /\ start_facts' = {}
    /\ second' = FALSE

\* the argument and the return value of the last query are gone
ForgetQuery ==
    /\ qpred' = NoneV
    /\ qres' = {}
    /\ qrule' = NoneV
    /\ qemit' = <<>>
    /\ qout' = <<>>
    /\ UNCHANGED <<mp, ev>>

Init ==
    /\ facts = {}
    /\ rules = <<>>
    /\ pc = "idle"
    /\ last = "new"
    /\ index = 0
    /\ elapsed = 0
    /\ limits = NoLimits
    /\ result = "none"
    /\ start_facts = {}
    /\ second = FALSE
    /\ clean = FALSE
    /\ qpred = NoneV
    /\ qres = {}
    /\ qrule = NoneV
    /\ qemit = <<>>
    /\ qout = <<>>
    /\ mp = NoneV
    /\ ev = NoneV
    /\ overflow_checks \in BOOLEAN

\* World::add_fact
AddFact ==
    /\ pc = "idle"
    /\ Cardinality(facts) < MaxFacts
    /\ \E fact \in FactInputs : facts' = facts \cup {fact}
    /\ last' = "add_fact"
    /\ clean' = FALSE
    /\ ForgetRun
    /\ ForgetQuery
    /\ UNCHANGED <<rules, pc, overflow_checks>>

\* World::add_rule
AddRule ==
    /\ pc = "idle"
    /\ Len(rules) < MaxRules
    /\ \E rule \in RuleInputs : rules' = Append(rules, rule)
    /\ last' = "add_rule"
    /\ clean' = FALSE
    /\ ForgetRun
    /\ ForgetQuery
    /\ UNCHANGED <<facts, pc, overflow_checks>>

\* World::run_with_limits up to the loop (World::run gives RunLimitsDefault)
RunStart ==
    /\ pc = "idle"
    /\ \E l \in LimitsInputs : limits' = l
    /\ pc' = "run"
    /\ last' = "run"
    /\ index' = 0
    /\ elapsed' = 0
    /\ result' = "none"
    /\ start_facts' = facts
    /\ second' = clean
    /\ ForgetQuery
    /\ UNCHANGED <<facts, rules, clean, overflow_checks>>

\* one iteration of the loop of run_with_limits
RunIteration ==
    /\ pc = "run"
    /\ \E order \in IterOrders(facts) :
        LET new_facts == ApplyRules(rules, 1, order)
            len == Cardinality(facts)
            merged == Extend(facts, new_facts.out)
        IN \E tick \in 0..MaxTick :
           IF new_facts.panic THEN
               /\ pc' = "panic"
               /\ UNCHANGED <<facts, index, elapsed, result, clean>>
           ELSE
               /\ facts' = merged
               /\ elapsed' = elapsed + tick
               /\ IF NoNewFact(len, merged) THEN
                      /\ result' = "Ok"
                      /\ pc' = "idle"
                      /\ clean' = TRUE
                      /\ UNCHANGED index
                  ELSE
                      /\ index' = index + 1
                      /\ clean' = FALSE
                      /\ IF IterationsReached(index + 1, limits) THEN
                             result' = "TooManyIterations" /\ pc' = "idle"
                         ELSE IF FactsReached(merged, limits) THEN
                             result' = "TooManyFacts" /\ pc' = "idle"
                         ELSE IF TimeReached(elapsed + tick, limits) THEN
                             result' = "Timeout" /\ pc' = "idle"
                         ELSE
                             UNCHANGED <<result, pc>>
    /\ UNCHANGED <<rules, last, limits, start_facts, second, qpred, qres, qrule,
                   qemit, qout, mp, ev, overflow_checks>>

\* World::query
Query ==
    /\ pc = "idle"
    /\ \E pred \in PredInputs :
        /\ qpred' = pred
        /\ qres' = WorldQuery(facts, pred)
    /\ last' = "query"
    /\ qrule' = NoneV
    /\ qemit' = <<>>
    /\ qout' = <<>>
    /\ ForgetRun
    /\ UNCHANGED <<facts, rules, pc, clean, mp, ev, overflow_checks>>

\* World::query_rule
QueryRule ==
    /\ pc = "idle"
    /\ \E rule \in ObserveRuleInputs, order \in IterOrders(facts) :
        LET b == RuleBindings(rule, order)
            a == RuleApply(rule, order)
        IN /\ qrule' = rule
           /\ qemit' = b.out
           /\ qout' = a.out
           /\ pc' = IF a.panic THEN "panic" ELSE "idle"
    /\ last' = "query_rule"
    /\ qpred' = NoneV
    /\ qres' = {}
    /\ ForgetRun
    /\ UNCHANGED <<facts, rules, clean, mp, ev, overflow_checks>>

\* the calls that change the World
Next ==
    \/ AddFact
    \/ AddRule
    \/ RunStart
    \/ RunIteration

Spec == Init /\ [][Next]_vars

\* query and query_rule take &self and leave the World as it is: they are
\* applied to the worlds add_fact builds from ObserveFactInputs
InitObserve ==
    /\ facts \in {fs \in SUBSET ObserveFactInputs : Cardinality(fs) <= MaxFacts}
    /\ rules = <<>>
    /\ pc = "idle"
    /\ last = "add_fact"
    /\ index = 0
    /\ elapsed = 0
    /\ limits = NoLimits
    /\ result = "none"
    /\ start_facts = {}
    /\ second = FALSE
    /\ clean = FALSE
    /\ qpred = NoneV
    /\ qres = {}
    /\ qrule = NoneV
    /\ qemit = <<>>
    /\ qout = <<>>
    /\ mp = NoneV
    /\ ev = NoneV
    /\ overflow_checks \in BOOLEAN

NextObserve ==
    \/ Query
    \/ QueryRule

SpecObserve == InitObserve /\ [][NextObserve]_vars

-----------------------------------------------------------------------------
(* Rule::apply is public: it is applied here to fact sets whose arguments  *)
(* have every tag, with rules that have constraints and expressions.       *)

\* the facts given to apply; the last one has a Variable argument, as the
\* facts have that a rule whose head names a variable its body lacks produced
JoinFactInputs ==
    {Fact("x", <<Integer(-2), Symbol("abc")>>),
     Fact("x", <<Integer(0), Symbol("def")>>),
     Fact("x", <<Integer(MinInt), Symbol("def")>>),
     Fact("x", <<Date(1), Symbol("abc")>>),
     Fact("x", <<Date(3), Symbol("def")>>),
     Fact("x", <<Str(<<1, 2>>), Symbol("abc")>>),
     Fact("x", <<Bytes(<<1>>), Symbol("abc")>>),
     Fact("x", <<Variable("W"), Symbol("abc")>>)}

\* ok(N, V) :- x(N, V), constraints, expressions
RuleJoin(constraints, expressions) ==
    Rule(Predicate("ok", <<Variable("N"), Variable("V")>>),
         <<Predicate("x", <<Variable("N"), Variable("V")>>)>>,
         constraints, expressions)

\* pair(N, M) :- x(N, V), x(M, V), constraints
RuleJoinPair(constraints) ==
    Rule(Predicate("pair", <<Variable("N"), Variable("M")>>),
         <<Predicate("x", <<Variable("N"), Variable("V")>>),
           Predicate("x", <<Variable("M"), Variable("V")>>)>>,
         constraints, <<>>)

ConstraintInputs ==
    {<<Constraint("N", "Int", "LessThan", 1)>>,
     <<Constraint("N", "Date", "Before", 2), Constraint("N", "Date", "After", 0)>>,
     <<Constraint("N", "Date", "After", 2), Constraint("N", "Date", "Before", 3)>>,
     <<Constraint("N", "Int", "GreaterThan", -3), Constraint("N", "Int", "NotIn", {0})>>,
     <<Constraint("V", "Symbol", "In", {"abc"}), Constraint("N", "Int", "LessOrEqual", 0)>>,
     <<Constraint("Z", "Int", "Equal", 7)>>,
     <<Constraint("N", "Str", "Prefix", <<1>>)>>,
     <<Constraint("N", "Str", "Regex", [valid |-> TRUE, lit |-> <<2>>])>>,
     <<Constraint("N", "Str", "Regex", [valid |-> FALSE, lit |-> <<2>>])>>,
     <<Constraint("N", "Bytes", "Equal", <<1>>)>>}

\* -(5 + -4) < N;  0 < -N;  N (no boolean);  N + (one operand);
\* -3 < N and N < 1 (two expressions)
ExpressionInputs ==
    {<< <<OpValue(Integer(5)), OpValue(Integer(-4)), OpBinary("Add"),
          OpUnary("Negate"), OpValue(Variable("N")), OpBinary("LessThan")>> >>,
     << <<OpValue(Integer(0)), OpValue(Variable("N")), OpUnary("Negate"),
          OpBinary("LessThan")>> >>,
     << <<OpValue(Variable("N"))>> >>,
     << <<OpValue(Variable("N")), OpBinary("Add")>> >>,
     << <<OpValue(Integer(-3)), OpValue(Variable("N")), OpBinary("LessThan")>>,
        <<OpValue(Variable("N")), OpValue(Integer(1)), OpBinary("LessThan")>> >>}

JoinRuleInputs ==
    {RuleJoin(c, <<>>) : c \in ConstraintInputs}
        \cup {RuleJoin(<<>>, e) : e \in ExpressionInputs}
        \cup {RuleJoinPair(<<>>),
              RuleJoinPair(<<Constraint("M", "Int", "LessThan", 0)>>),
              RuleEmptyBody,
              Rule(Predicate("always", <<Symbol("A")>>), <<>>, <<>>,
                   << <<OpValue(Integer(1)), OpValue(Integer(2)),
                        OpBinary("LessThan")>> >>),
              Rule(Predicate("always", <<Symbol("A")>>), <<>>, <<>>,
                   << <<OpValue(Integer(2)), OpValue(Integer(1)),
                        OpBinary("LessThan")>> >>)}

\* Rule::apply of qrule on the facts, new_facts empty
Apply ==
    /\ pc = "apply"
    /\ \E order \in IterOrders(facts) :
        LET b == RuleBindings(qrule, order)
            a == RuleApply(qrule, order)
        IN /\ qemit' = b.out
           /\ qout' = a.out
           /\ pc' = IF a.panic THEN "panic" ELSE "idle"
    /\ last' = "apply"
    /\ UNCHANGED <<facts, rules, index, elapsed, limits, result, start_facts,
                   second, clean, qpred, qres, qrule, mp, ev, overflow_checks>>

InitJoin ==
    /\ facts \in {fs \in SUBSET JoinFactInputs : Cardinality(fs) <= MaxFacts}
    /\ rules = <<>>
    /\ pc = "apply"
    /\ last = "new"
    /\ index = 0
    /\ elapsed = 0
    /\ limits = NoLimits
    /\ result = "none"
    /\ start_facts = {}
    /\ second = FALSE
    /\ clean = FALSE
    /\ qpred = NoneV
    /\ qres = {}
    /\ qrule \in JoinRuleInputs
    /\ qemit = <<>>
    /\ qout = <<>>
    /\ mp = NoneV
    /\ ev = NoneV
    /\ overflow_checks \in BOOLEAN

NextJoin == Apply

SpecJoin == InitJoin /\ [][NextJoin]_vars

-----------------------------------------------------------------------------
(* match_preds and Expression::evaluate are public functions of their      *)
(* arguments alone: they are applied to arguments drawn from bounded sets. *)

\* the sequences of at most n elements of S
SeqsUpTo(S, n) == UNION {[1..k -> S] : k \in 0..n}

\* values of every tag, two of them for the tags whose payloads are compared
IDInputs ==
    {Symbol("A"), Symbol("B"), Variable("X"), Integer(0), Str(<<1>>), Date(1),
     Bytes(<<1>>), Bytes(<<2>>), Bool(TRUE)}

\* match_preds: the first argument, and the second one
Pred1Inputs == {Predicate("p", ids) : ids \in SeqsUpTo(IDInputs, MaxArity)}
Pred2Inputs ==
    {Predicate(name, ids) : name \in {"p", "q"}, ids \in SeqsUpTo(IDInputs, MaxArity)}

OpInputs ==
    {OpValue(Integer(MinInt)), OpValue(Integer(1)), OpValue(Bool(TRUE)),
     OpValue(Variable("v")), OpUnary("Negate"), OpBinary("LessThan"),
     OpBinary("GreaterThan"), OpBinary("Add"), OpBinary("And")}

\* the HashMap given to evaluate: v is 0, or v has no value
ValuesInputs == {[k \in {"v"} |-> Integer(0)], [k \in {} |-> Integer(0)]}

\* match_preds
MatchPreds ==
    /\ pc = "match_preds"
    /\ mp' = [pred1 |-> mp.pred1, pred2 |-> mp.pred2,
               ret |-> match_preds(mp.pred1, mp.pred2)]
    /\ pc' = "idle"
    /\ last' = "match_preds"
    /\ UNCHANGED <<facts, rules, index, elapsed, limits, result, start_facts,
                   second, clean, qpred, qres, qrule, qemit, qout, ev,
                   overflow_checks>>

\* Expression::evaluate
Evaluate ==
    /\ pc = "evaluate"
    /\ LET res == ExpressionEvaluate(ev.ops, ev.values) IN
        /\ ev' = [ops |-> ev.ops, values |-> ev.values, ret |-> res]
        /\ pc' = IF res = PanicV THEN "panic" ELSE "idle"
    /\ last' = "evaluate"
    /\ UNCHANGED <<facts, rules, index, elapsed, limits, result, start_facts,
                   second, clean, qpred, qres, qrule, qemit, qout, mp,
                   overflow_checks>>

InitPure ==
    /\ facts = {}
    /\ rules = <<>>
    /\ last = "new"
    /\ index = 0
    /\ elapsed = 0
    /\ limits = NoLimits
    /\ result = "none"
    /\ start_facts = {}
    /\ second = FALSE
    /\ clean = FALSE
    /\ qpred = NoneV
    /\ qres = {}
    /\ qrule = NoneV
    /\ qemit = <<>>
    /\ qout = <<>>
    /\ overflow_checks \in BOOLEAN
    /\ \/ /\ pc = "match_preds"
          /\ mp \in [pred1 : Pred1Inputs, pred2 : Pred2Inputs]
          /\ ev = NoneV
       \/ /\ pc = "evaluate"
          /\ mp = NoneV
          /\ ev \in [ops : SeqsUpTo(OpInputs, MaxOps), values : ValuesInputs]

NextPure ==
    \/ MatchPreds
    \/ Evaluate

SpecPure == InitPure /\ [][NextPure]_vars

-----------------------------------------------------------------------------
(* The rules as the specification reads them: a body predicate matches a   *)
(* fact of its name and arity whose arguments equal its concrete arguments *)
(* (whatever their tag), a variable has one value at all its occurrences,  *)
(* every constraint and every expression holds.                            *)

RefMatches(fact, pred) ==
    /\ fact.name = pred.name
    /\ Len(fact.ids) = Len(pred.ids)
    /\ \A i \in 1..Len(pred.ids) :
        pred.ids[i].tag = "Variable" \/ fact.ids[i] = pred.ids[i]

\* the values the facts t give to variable k of the body
RefValues(body, t, k) ==
    UNION {{t[i].ids[j] : j \in {n \in 1..Len(body[i].ids) : body[i].ids[n] = Variable(k)}} :
           i \in 1..Len(body)}

RefEnv(body, t) ==
    [k \in VariablesSet(body) |-> CHOOSE id \in RefValues(body, t, k) : TRUE]

RefHolds(rule, env) ==
    /\ \A i \in 1..Len(rule.constraints) : \A k \in DOMAIN env :
        Check(rule.constraints[i], k, env[k])
    /\ \A i \in 1..Len(rule.expressions) :
        ExpressionEvaluate(rule.expressions[i], env) = Bool(TRUE)

\* the sequences of facts of fs that satisfy the rule
RefSat(rule, fs) ==
    {t \in [1..Len(rule.body) -> fs] :
        /\ \A i \in 1..Len(rule.body) : RefMatches(t[i], rule.body[i])
        /\ \A k \in VariablesSet(rule.body) :
            Cardinality(RefValues(rule.body, t, k)) = 1
        /\ RefHolds(rule, RefEnv(rule.body, t))}

\* the facts a rule derives from fs; none when its head names a variable
\* its body lacks
RefDerived(rule, fs) ==
    IF \E i \in 1..Len(rule.head.ids) :
            /\ rule.head.ids[i].tag = "Variable"
            /\ rule.head.ids[i].v \notin VariablesSet(rule.body)
    THEN {}
    ELSE {HeadFact(rule.head, RefEnv(rule.body, t)) : t \in RefSat(rule, fs)}

Count(s, e) == Cardinality({i \in 1..Len(s) : s[i] = e})

RunReturned == last = "run" /\ pc = "idle"

RunErrors == {"TooManyFacts", "TooManyIterations", "Timeout"}

\* an execution of run_with_limits in which the facts are iterated in the
\* order SetToSeq gives and the clock never reaches the deadline: the facts
\* it ends with
RECURSIVE ReferenceRun(_, _, _, _)
ReferenceRun(fs, rs, l, ix) ==
    LET new_facts == ApplyRules(rs, 1, SetToSeq(fs))
        merged == Extend(fs, new_facts.out)
    IN IF new_facts.panic THEN fs
       ELSE IF NoNewFact(Cardinality(fs), merged) THEN merged
       ELSE IF IterationsReached(ix + 1, l) THEN merged
       ELSE IF FactsReached(merged, l) THEN merged
       ELSE ReferenceRun(merged, rs, l, ix + 1)

-----------------------------------------------------------------------------
(* The claims *)

\* C1: when run_with_limits returns success the fact set is closed under
\* the rules (every fact a rule derives from the final facts is in the final
\* facts) and every final fact was there before the call or is derived by a
\* rule from the final facts.
C1_SuccessIsClosure ==
    (RunReturned /\ result = "Ok") =>
        /\ \A i \in 1..Len(rules) : RefDerived(rules[i], facts) \subseteq facts
        /\ \A f \in facts :
            f \in start_facts \/ \E i \in 1..Len(rules) : f \in RefDerived(rules[i], facts)

\* C2: no step of add_fact, add_rule or run_with_limits, failing runs
\* included, removes a fact.
C2_Monotonic == [][facts \subseteq facts']_vars

\* C2, witness: a run that ended with a limit error after adding facts.
C2_Witness == RunReturned /\ result \in RunErrors /\ facts # start_facts

\* C3: a run that directly follows a successful run does not panic, ends at
\* its first iteration with success and leaves the facts as they were.
C3_Idempotent ==
    second =>
        /\ pc # "panic"
        /\ facts = start_facts
        /\ pc = "run" => index = 0
        /\ pc = "idle" => result = "Ok"

\* C3, witness: the second run has returned, in a world where the first one
\* derived a grandparent fact.
C3_Witness ==
    /\ second
    /\ RunReturned
    /\ \E f \in facts : f.name = "grandparent"

\* C4, as claimed: every execution of run (run_with_limits with the default
\* limits) ends with the facts another execution from the same facts and
\* rules ends with.
C4_SameFinalFacts ==
    (RunReturned /\ limits = RunLimitsDefault) =>
        facts = ReferenceRun(start_facts, rules, limits, 0)

\* C4, amended: two executions of which neither ends with Timeout end with
\* the same facts, whatever the orders the facts are iterated in.
C4_SameFinalFactsNoTimeout ==
    (RunReturned /\ result # "Timeout") =>
        facts = ReferenceRun(start_facts, rules, limits, 0)

\* C4, witness: a successful run of two fact-adding iterations, each with an
\* iteration order of its own.
C4_Witness == RunReturned /\ result = "Ok" /\ index >= 2

\* C5: every fact query returns matches the queried predicate (match_preds).
C5_QuerySound ==
    last = "query" => \A f \in qres : match_preds(f, qpred)

\* C6: query returns every fact of the predicate's name and arity that
\* equals the predicate at its concrete arguments; a Variable accepts a value
\* of any tag.
C6_QueryComplete ==
    last = "query" =>
        \A f \in facts : RefMatches(f, qpred) => f \in qres

\* C7, as claimed: on success the world holds at most max_facts facts.
C7_SuccessWithinMaxFacts ==
    (RunReturned /\ result = "Ok") => Cardinality(facts) <= limits.max_facts

\* C7, amended: on success of a call that added a fact the world holds fewer
\* than max_facts facts.
C7_GrowingSuccessWithinMaxFacts ==
    (RunReturned /\ result = "Ok" /\ facts # start_facts) =>
        Cardinality(facts) < limits.max_facts

\* C7, witness: a run with max_facts = 4 that added a fact and succeeded.
C7_Witness ==
    /\ RunReturned
    /\ result = "Ok"
    /\ facts # start_facts
    /\ limits.max_facts = 4

\* C8: no fact of the world has a Variable argument.
C8_FactsGround ==
    \A f \in facts : \A i \in 1..Len(f.ids) : f.ids[i].tag # "Variable"

\* C9: run_with_limits never panics.
C9_RunNeverPanics == ~(last = "run" /\ pc = "panic")

\* C10: the bindings the join of query_rule's rule emits are, each as many
\* times, the assignments of the sequences of facts that satisfy the rule.
C10_JoinExact ==
    (last = "query_rule" /\ pc = "idle" /\ Len(qrule.body) > 0) =>
        LET sat == RefSat(qrule, facts) IN
        /\ Len(qemit) = Cardinality(sat)
        /\ \A i \in 1..Len(qemit) : \E t \in sat : qemit[i] = RefEnv(qrule.body, t)
        /\ \A t \in sat :
            Count(qemit, RefEnv(qrule.body, t)) =
                Cardinality({u \in sat : RefEnv(qrule.body, u) = RefEnv(qrule.body, t)})

\* the constraint kind a value of a tag satisfies constraints of
RefKind(tag) ==
    CASE tag = "Integer" -> "Int"
      [] tag = "Str" -> "Str"
      [] tag = "Date" -> "Date"
      [] tag = "Symbol" -> "Symbol"
      [] tag = "Bytes" -> "Bytes"
      [] OTHER -> "none"

\* a value satisfies a constraint: the value's tag is the constraint's kind
\* and the comparison holds
RefConstraintHolds(c, id) ==
    /\ c.kind = RefKind(id.tag)
    /\ CASE c.op = "LessThan" -> id.v < c.val
         [] c.op = "GreaterThan" -> id.v > c.val
         [] c.op = "LessOrEqual" -> id.v <= c.val
         [] c.op = "GreaterOrEqual" -> id.v >= c.val
         [] c.op = "Equal" -> id.v = c.val
         [] c.op = "In" -> id.v \in c.val
         [] c.op = "NotIn" -> id.v \notin c.val
         [] c.op = "Prefix" -> IsPrefix(c.val, id.v)
         [] c.op = "Suffix" -> IsSuffix(c.val, id.v)
         [] c.op = "Regex" -> RegexIsMatch(c.val, id.v)
         [] c.op = "Before" -> id.v <= c.val
         [] c.op = "After" -> id.v >= c.val

\* every constraint of the rule that targets a variable of binding h holds
\* for the value h gives the variable
RefConstraintsHold(rule, h) ==
    \A j \in 1..Len(rule.constraints) : \A k \in DOMAIN h :
        rule.constraints[j].id = k => RefConstraintHolds(rule.constraints[j], h[k])

\* C11: every binding the join of apply emits gives each variable a value
\* that satisfies every constraint targeting the variable (a value of another
\* tag than the constraint's kind does not), every fact apply produces is the
\* head under such a binding, and constraints never reject a binding whose
\* values satisfy the constraints targeting its variables: each such binding
\* of the rule without its constraints is emitted.
C11_ConstraintSound ==
    (last = "apply" /\ pc = "idle") =>
        /\ \A i \in 1..Len(qemit) : RefConstraintsHold(qrule, qemit[i])
        /\ Len(qout) = Len(qemit)
        /\ \A i \in 1..Len(qout) : qout[i] = HeadFact(qrule.head, qemit[i])
        /\ LET free == RuleBindings([qrule EXCEPT !.constraints = <<>>],
                                    SetToSeq(facts))
           IN \A i \in 1..Len(free.out) :
                RefConstraintsHold(qrule, free.out[i]) =>
                    \E n \in 1..Len(qemit) : qemit[n] = free.out[i]

\* C11, witness: Before(2) and After(0) on the same variable kept the date 1
\* among the dates 1 and 3 and an integer.
C11_Witness ==
    /\ last = "apply"
    /\ pc = "idle"
    /\ qrule.constraints =
            <<Constraint("N", "Date", "Before", 2), Constraint("N", "Date", "After", 0)>>
    /\ facts = {Fact("x", <<Date(1), Symbol("abc")>>),
                Fact("x", <<Date(3), Symbol("def")>>),
                Fact("x", <<Integer(0), Symbol("def")>>)}
    /\ qout = <<Fact("ok", <<Date(1), Symbol("abc")>>)>>

-----------------------------------------------------------------------------
(* The stack machine as the specification describes it: the stack's top is *)
(* its head, a failed evaluation is the stack RefFail, integer arithmetic  *)
(* is two's complement and wraps.                                          *)

RefFail == <<NoneV>>

\* the integer of the width's range that is congruent to n
RefWrap(n) == CHOOSE m \in MinInt..MaxInt : (m - n) % (2 ^ IntBits) = 0

RefUnary(op, x) ==
    CASE op = "Negate" /\ x.tag = "Integer" -> <<Integer(RefWrap(0 - x.v))>>
      [] op = "Negate" /\ x.tag = "Bool" -> <<Bool(x.v = FALSE)>>
      [] OTHER -> RefFail

RefBinary(op, left, right) ==
    CASE op \in {"LessThan", "GreaterThan", "Add"}
            /\ left.tag = "Integer" /\ right.tag = "Integer" ->
                (CASE op = "LessThan" -> <<Bool(left.v < right.v)>>
                   [] op = "GreaterThan" -> <<Bool(right.v < left.v)>>
                   [] op = "Add" -> <<Integer(RefWrap(left.v + right.v))>>)
      [] op = "And" /\ left.tag = "Bool" /\ right.tag = "Bool" ->
                <<Bool(left.v /\ right.v)>>
      [] OTHER -> RefFail

\* one op applied to a stack
RefStep(o, stack, env) ==
    CASE o.op = "Value" ->
            IF o.x.tag # "Variable" THEN <<o.x>> \o stack
            ELSE IF o.x.v \in DOMAIN env THEN <<env[o.x.v]>> \o stack
            ELSE RefFail
      [] o.op = "Unary" ->
            IF Len(stack) < 1 THEN RefFail
            ELSE LET r == RefUnary(o.x, stack[1]) IN
                 IF r = RefFail THEN RefFail ELSE r \o Tail(stack)
      [] o.op = "Binary" ->
            IF Len(stack) < 2 THEN RefFail
            ELSE LET r == RefBinary(o.x, stack[2], stack[1]) IN
                 IF r = RefFail THEN RefFail ELSE r \o Tail(Tail(stack))

RECURSIVE RefRun(_, _, _)
RefRun(ops, stack, env) ==
    IF ops = <<>> THEN stack
    ELSE LET st == RefStep(Head(ops), stack, env) IN
         IF st = RefFail THEN RefFail ELSE RefRun(Tail(ops), st, env)

\* the value of an expression, NoneV when the evaluation fails
RefEvaluate(ops, env) ==
    LET st == RefRun(ops, <<>>, env) IN
    IF st # RefFail /\ Len(st) = 1 THEN st[1] ELSE NoneV

\* every expression of the rule is Bool(true) under binding h
RefExpressionsHold(rule, h) ==
    \A e \in 1..Len(rule.expressions) :
        RefEvaluate(rule.expressions[e], h) = Bool(TRUE)

\* C12: apply of a rule with expressions (a body, no constraint) returns;
\* every binding its join emits makes every expression of the rule evaluate
\* to Bool(true); a binding for which one does not is dropped and the join
\* goes on: every binding of the rule without its expressions that makes
\* them all Bool(true) is emitted.
C12_ExpressionSound ==
    (last = "apply" /\ Len(qrule.body) > 0 /\ qrule.constraints = <<>>) =>
        /\ pc = "idle"
        /\ \A i \in 1..Len(qemit) : RefExpressionsHold(qrule, qemit[i])
        /\ LET free == RuleBindings([qrule EXCEPT !.expressions = <<>>],
                                    SetToSeq(facts))
           IN \A i \in 1..Len(free.out) :
                RefExpressionsHold(qrule, free.out[i]) =>
                    \E n \in 1..Len(qemit) : qemit[n] = free.out[i]

\* predicate matching as the specification defines it
RefMatchPreds(fact_pred, query_pred) ==
    /\ fact_pred.name = query_pred.name
    /\ Len(fact_pred.ids) = Len(query_pred.ids)
    /\ \A i \in 1..Len(fact_pred.ids) :
        \/ fact_pred.ids[i].tag = "Variable"
        \/ query_pred.ids[i].tag = "Variable"
        \/ /\ fact_pred.ids[i].tag = query_pred.ids[i].tag
           /\ fact_pred.ids[i].v = query_pred.ids[i].v

\* C13: match_preds returns true if and only if the names are equal, the
\* arities are equal and at every position one of the two values is a
\* Variable or both have the same tag and equal payloads, for every tag.
C13_MatchPredsExact ==
    last = "match_preds" => (mp.ret <=> RefMatchPreds(mp.pred1, mp.pred2))

\* C14: apply of a rule whose body is empty returns, and its join emits the
\* empty binding when every expression of the rule evaluates to Bool(true),
\* nothing otherwise.
C14_EmptyBodyEmits ==
    (last = "apply" /\ Len(qrule.body) = 0) =>
        /\ pc = "idle"
        /\ qemit = IF RefExpressionsHold(qrule, MatchedVariablesNew({}))
                   THEN <<MatchedVariablesNew({})>>
                   ELSE <<>>

\* C15: the iteration in which run_with_limits returns TooManyFacts leaves at
\* least max_facts facts in the world: the facts it started with and all the
\* facts the rules derived from them in that iteration, which stay after the
\* return.
C15_TooManyFactsKept ==
    [][(pc = "run" /\ result' = "TooManyFacts") =>
            /\ pc' = "idle"
            /\ Cardinality(facts') >= limits.max_facts
            /\ facts' = facts \cup Range(ApplyRules(rules, 1, SetToSeq(facts)).out)
            /\ facts' # facts]_vars

\* C15, witness: a run returned TooManyFacts with more than max_facts facts,
\* some of them derived by the run.
C15_Witness ==
    /\ RunReturned
    /\ result = "TooManyFacts"
    /\ Cardinality(facts) > limits.max_facts
    /\ facts # start_facts

\* C16: Expression::evaluate returns, for every op sequence and environment,
\* what the stack machine of the specification yields: the single value left
\* on the stack, or a failure (an absent variable, a stack underflow, a type
\* mismatch, a final stack of zero or several values).
C16_EvaluateIsStackMachine ==
    last = "evaluate" =>
        /\ pc = "idle"
        /\ ev.ret = RefEvaluate(ev.ops, ev.values)

\* the ops are two integers and Add
IsAddOfIntegers(ops) ==
    /\ Len(ops) = 3
    /\ ops[1].op = "Value" /\ ops[1].x.tag = "Integer"
    /\ ops[2].op = "Value" /\ ops[2].x.tag = "Integer"
    /\ ops[3] = OpBinary("Add")

\* the ops are an integer and Negate
IsNegateOfInteger(ops) ==
    /\ Len(ops) = 2
    /\ ops[1].op = "Value" /\ ops[1].x.tag = "Integer"
    /\ ops[2] = OpUnary("Negate")

\* C17: Add of two Integers evaluates to their sum modulo 2^width read as a
\* signed integer, Negate of the minimum integer to the minimum integer, and
\* neither aborts.
C17_ArithmeticWraps ==
    last = "evaluate" =>
        /\ IsAddOfIntegers(ev.ops) =>
            /\ pc = "idle"
            /\ ev.ret = Integer(RefWrap(ev.ops[1].x.v + ev.ops[2].x.v))
        /\ IsNegateOfInteger(ev.ops) =>
            /\ pc = "idle"
            /\ ev.ret = Integer(RefWrap(0 - ev.ops[1].x.v))
            /\ ev.ops[1].x.v = MinInt => ev.ret = Integer(MinInt)

\* C18: a call of run_with_limits completes at most max_iterations iterations
\* that added facts, for every max_iterations, 0 included, and returns
\* TooManyIterations once it has completed that many.
C18_IterationLimit ==
    last = "run" =>
        /\ index <= limits.max_iterations
        /\ (index >= 1 /\ index = limits.max_iterations) =>
                (pc = "idle" /\ result = "TooManyIterations")

\* C19: an iteration that adds no fact ends the run with success, whatever
\* the limits and the clock are; a limit error is returned only by an
\* iteration that added a fact, and the iteration that brings the number of
\* fact-adding iterations to max_iterations returns TooManyIterations, even
\* when the facts are saturated.
C19_NoNewFactSucceeds ==
    [][(pc = "run" /\ pc' # "panic") =>
            /\ facts' = facts => (pc' = "idle" /\ result' = "Ok")
            /\ result' \in RunErrors => facts' # facts
            /\ (facts' # facts /\ index' = limits.max_iterations) =>
                    (pc' = "idle" /\ result' = "TooManyIterations")]_vars

\* C19, witness: a run with rules whose first iteration added nothing
\* succeeded in a world that holds max_facts facts or more, after the
\* deadline.
C19_Witness ==
    /\ RunReturned
    /\ result = "Ok"
    /\ index = 0
    /\ rules # <<>>
    /\ Cardinality(facts) >= limits.max_facts
    /\ elapsed >= limits.max_time

\* C19: a run returned TooManyIterations with saturated facts.
C19_SaturatedTooManyIterations ==
    /\ RunReturned
    /\ result = "TooManyIterations"
    /\ Range(ApplyRules(rules, 1, SetToSeq(facts)).out) \subseteq facts

\* C20: the error a run returns is TooManyIterations when the iteration
\* limit is reached, else TooManyFacts when the fact limit is reached, else
\* Timeout, the deadline being reached; the loop goes on after an iteration
\* that added facts only when none of the three is reached.
C20_LimitOrder ==
    /\ (RunReturned /\ result \in RunErrors) =>
            /\ index = limits.max_iterations => result = "TooManyIterations"
            /\ (index # limits.max_iterations
                    /\ Cardinality(facts) >= limits.max_facts) =>
                        result = "TooManyFacts"
            /\ (index # limits.max_iterations
                    /\ Cardinality(facts) < limits.max_facts) =>
                        (result = "Timeout" /\ elapsed >= limits.max_time)
    /\ (last = "run" /\ pc = "run" /\ index >= 1) =>
            /\ index # limits.max_iterations
            /\ Cardinality(facts) < limits.max_facts
            /\ elapsed < limits.max_time

\* C20, witness: the three limits were reached in one iteration and the run
\* returned TooManyIterations.
C20_Witness ==
    /\ RunReturned
    /\ result = "TooManyIterations"
    /\ Cardinality(facts) >= limits.max_facts
    /\ elapsed >= limits.max_time

\* C20: the fact limit and the deadline were reached in one iteration and
\* the run returned TooManyFacts.
C20_FactsBeforeTimeout ==
    /\ RunReturned
    /\ result = "TooManyFacts"
    /\ elapsed >= limits.max_time

\* the facts fs and the facts each rule alone yields when applied to fs
RefIteration(fs, rs) ==
    fs \cup UNION {Range(RuleApply(rs[i], SetToSeq(fs)).out) : i \in 1..Len(rs)}

\* the facts after n iterations from fs
RECURSIVE RefIterations(_, _, _)
RefIterations(fs, rs, n) ==
    IF n = 0 THEN fs ELSE RefIterations(RefIteration(fs, rs), rs, n - 1)

\* C21: the facts of a run that has completed k fact-adding iterations are
\* the facts k iterations yield from the facts the run started with, when
\* an iteration adds to the facts what each rule yields applied to the
\* facts as they were at the start of the iteration: a fact whose derivation
\* is k rules deep is there after k iterations, not before.
C21_RulesSeeSnapshot ==
    last = "run" => facts = RefIterations(start_facts, rules, index)

\* C21, witness: a successful run of two different rules and two fact-adding
\* iterations, at the end of which parent(A, D) is derived from parent(A, C),
\* itself derived by the run.
C21_Witness ==
    /\ RunReturned
    /\ result = "Ok"
    /\ index = 2
    /\ Len(rules) = 2
    /\ rules[1] # rules[2]
    /\ Fact("parent", <<Symbol("A"), Symbol("D")>>) \in facts
    /\ Fact("parent", <<Symbol("A"), Symbol("D")>>)
            \notin RefIteration(start_facts, rules)

-----------------------------------------------------------------------------
(* Calls of run_with_limits one after the other on a world that add_fact   *)
(* and add_rule have built and no longer change.  A call that was made     *)
(* performs its iterations (the loop has no blocking step), and the caller *)
(* goes on calling.                                                        *)

\* the rule lists add_rule builds
RulesInputs == SeqsUpTo(RuleInputs, MaxRules)

InitLive ==
    /\ facts \in {fs \in SUBSET FactInputs : Cardinality(fs) <= MaxLiveFacts}
    /\ rules \in RulesInputs
    /\ pc = "idle"
    /\ last = "new"
    /\ index = 0
    /\ elapsed = 0
    /\ limits = NoLimits
    /\ result = "none"
    /\ start_facts = {}
    /\ second = FALSE
    /\ clean = FALSE
    /\ qpred = NoneV
    /\ qres = {}
    /\ qrule = NoneV
    /\ qemit = <<>>
    /\ qout = <<>>
    /\ mp = NoneV
    /\ ev = NoneV
    /\ overflow_checks \in BOOLEAN

NextLive ==
    \/ RunStart
    \/ RunIteration

\* the loop of run_with_limits goes on: weak fairness of RunIteration, in
\* which ENABLED <<RunIteration>>_vars is written pc = "run" (the step has no
\* other guard, and it changes pc or index)
LoopFairness ==
    []<>(pc # "run") \/ []<><<RunIteration>>_vars

SpecLive ==
    InitLive /\ [][NextLive]_vars /\ WF_vars(RunStart) /\ LoopFairness

\* no rule yields a fact that fs lacks
Saturated(fs, rs) == RefIteration(fs, rs) = fs

\* C22: the loop of a call of run_with_limits reaches, after finitely many
\* iterations, an iteration that adds no fact (the call returns success with
\* saturated facts), unless a limit trips.
C22_SaturationTerminates ==
    (pc = "run") ~>
        \/ RunReturned /\ result = "Ok" /\ Saturated(facts, rules)
        \/ RunReturned /\ result \in RunErrors

\* C23: when run_with_limits is called again and again, whatever the limits,
\* a call eventually returns success, with saturated facts.
C23_RepeatedRunsSucceed ==
    <>(RunReturned /\ result = "Ok" /\ Saturated(facts, rules))

====
